---- MODULE Spec2Model ----
(***************************************************************************)
(* Validoopsie: a Validate session owns a dataset (frame) and a report     *)
(* (self.results).  Rules are attached through category methods or         *)
(* add_validation; each attachment executes the rule and records its       *)
(* Result; validate() scans the report and raises on high-impact failures. *)
(*                                                                         *)
(* Encoding of Python values:                                              *)
(*   - a dict with ordered keys (self.results) is a sequence of            *)
(*     [k |-> key, v |-> value] items in insertion order;                  *)
(*   - the inner dicts (Summary, a rule's Result) are functions over the   *)
(*     keys that are present;                                              *)
(*   - None / True / False of Summary.passed are "None", "True", "False";  *)
(*   - Summary.validations is [str |-> s] while it is a str and            *)
(*     [list |-> <<...>>] once it is a list (isinstance(..., str));        *)
(*   - a float threshold t is the integer 100 * t; failed_percentage is    *)
(*     the exact fraction [num, den].                                      *)
(***************************************************************************)
EXTENDS Integers, Sequences, FiniteSets, TLC

VARIABLES frame, results, clock, last, history, rule, res, loader, sessions

vars == <<frame, results, clock, last, history, rule, res, loader, sessions>>

(***************************************************************************)
(* Bounds                                                                  *)
(***************************************************************************)
MaxRows == 2
MaxAttach == 3
MaxExecute == 2
MaxBetweenRows == 5
MaxCityRows == 10
MaxFiles == 2

\* cell values; Null is the missing value
Null == 0
ValuesA == {Null, 1, 2}
ValuesB == {1, 2}
FrameColumns == {"A", "B"}
Rows == [A : ValuesA, B : ValuesB]

RECURSIVE SeqsUpTo(_, _)
SeqsUpTo(S, n) ==
    IF n = 0 THEN {<<>>}
    ELSE LET shorter == SeqsUpTo(S, n - 1)
         IN shorter \cup {Append(s, e) : s \in {t \in shorter : Len(t) = n - 1}, e \in S}

Frames == SeqsUpTo(Rows, MaxRows)

Impacts == {"low", "medium", "high"}
Thresholds == {0, 50, 100}

(***************************************************************************)
(* Python dict helpers                                                     *)
(***************************************************************************)
Keys(d) == [i \in 1..Len(d) |-> d[i].k]
KeySet(d) == {d[i].k : i \in 1..Len(d)}
Has(d, key) == key \in KeySet(d)
Get(d, key) == d[CHOOSE i \in 1..Len(d) : d[i].k = key].v
\* dict.update({key: value}) / d[key] = value: an existing key keeps its position
Update(d, key, value) ==
    IF Has(d, key)
    THEN [i \in 1..Len(d) |-> IF d[i].k = key THEN [k |-> key, v |-> value] ELSE d[i]]
    ELSE Append(d, [k |-> key, v |-> value])
\* inner dict: d[key] = value
Put(d, key, value) == (key :> value) @@ d

RECURSIVE SumCounts(_)
SumCounts(groups) ==
    IF groups = {} THEN 0
    ELSE LET g == CHOOSE g \in groups : TRUE
         IN g.count + SumCounts(groups \ {g})

(***************************************************************************)
(* Rule catalogue: the violation query (__call__) of each rule returns the *)
(* violating groups, one [key, count] per group key.                       *)
(***************************************************************************)
ColumnValues(f, column) == {f[i][column] : i \in 1..Len(f)}

\* filter(is_null() == False).group_by(column).agg(count)
ColumnBeNullCall(self, f) ==
    LET kept == {i \in 1..Len(f) : f[i][self.column] # Null}
    IN {[key |-> v, count |-> Cardinality({i \in kept : f[i][self.column] = v})] :
            v \in {f[i][self.column] : i \in kept}}

\* mutant: agg(count) on the null group, which counts the non-null values
ColumnNotBeNullCallCount(self, f) ==
    LET kept == {i \in 1..Len(f) : f[i][self.column] = Null}
    IN {[key |-> v,
         count |-> Cardinality({i \in kept : f[i][self.column] = v /\ v # Null})] :
            v \in {f[i][self.column] : i \in kept}}

\* filter(is_null() == True).with_columns(lit(1)).group_by(column).agg(sum)
ColumnNotBeNullCall(self, f) ==
    LET kept == {i \in 1..Len(f) : f[i][self.column] = Null}
    IN {[key |-> v, count |-> Cardinality({i \in kept : f[i][self.column] = v})] :
            v \in {f[i][self.column] : i \in kept}}

\* mutant: the filter keeps the groups whose value is in the list
ColumnUniqueValuesToBeInListCallAllowed(self, f) ==
    LET grouped == {[key |-> v,
                     count |-> Cardinality({i \in 1..Len(f) : f[i][self.column] = v})] :
                        v \in ColumnValues(f, self.column)}
    IN {g \in grouped : g.key \in self.values}

\* group_by(column).agg(count).filter(is_in(values) == False)
ColumnUniqueValuesToBeInListCall(self, f) ==
    LET grouped == {[key |-> v,
                     count |-> Cardinality({i \in 1..Len(f) : f[i][self.column] = v})] :
                        v \in ColumnValues(f, self.column)}
    IN {g \in grouped : g.key \notin self.values}

\* Python None for a bound that is not given
None == -1

\* sep.join(strings)
RECURSIVE Join(_, _)
Join(strings, sep) ==
    IF strings = <<>> THEN ""
    ELSE IF Len(strings) = 1 THEN strings[1]
    ELSE strings[1] \o sep \o Join(Tail(strings), sep)

\* str() of a number or None, and of a list of strings
Str(value) == IF value = None THEN "None" ELSE ToString(value)
ReprList(strings) ==
    "[" \o Join([n \in 1..Len(strings) |-> "'" \o strings[n] \o "'"], ", ") \o "]"

\* the rows min_max_filter keeps: those outside the bounds that are given;
\* a comparison with a missing value keeps nothing
min_max_filter(f, column, min_value, max_value) ==
    {i \in 1..Len(f) :
        /\ f[i][column] # Null
        /\ \/ min_value # None /\ f[i][column] < min_value
           \/ max_value # None /\ f[i][column] > max_value}

\* mutant: the upper bound is not handed to the filter
ColumnValuesToBeBetweenCallMinOnly(self, f) ==
    LET kept == min_max_filter(f, self.column, self.min_value, None)
    IN {[key |-> v, count |-> Cardinality({i \in kept : f[i][self.column] = v})] :
            v \in {f[i][self.column] : i \in kept}}

\* min_max_filter(frame, column, min_value, max_value).group_by(column).agg(count)
ColumnValuesToBeBetweenCall(self, f) ==
    LET kept == min_max_filter(f, self.column, self.min_value, self.max_value)
    IN {[key |-> v, count |-> Cardinality({i \in kept : f[i][self.column] = v})] :
            v \in {f[i][self.column] : i \in kept}}

\* mutant: the bounds are applied to the values, not to their counts
ColumnUniqueValueCountToBeBetweenCallValues(self, f) ==
    LET kept == min_max_filter(f, self.column, self.min_value, self.max_value)
    IN {[key |-> v, count |-> Cardinality({i \in kept : f[i][self.column] = v})] :
            v \in {f[i][self.column] : i \in kept}}

\* group_by(column).agg(count), then min_max_filter on the count column: the
\* groups whose number of occurrences is outside the bounds
ColumnUniqueValueCountToBeBetweenCall(self, f) ==
    LET unique_value_counts ==
            {[key |-> v,
              count |-> Cardinality({i \in 1..Len(f) : f[i][self.column] = v /\ v # Null})] :
                v \in ColumnValues(f, self.column)}
    IN {g \in unique_value_counts :
            \/ self.min_value # None /\ g.count < self.min_value
            \/ self.max_value # None /\ g.count > self.max_value}

\* concat_str(columns): the tuple of the cells, missing when a cell is missing
ConcatStr(row, columns) ==
    IF \E n \in 1..Len(columns) : row[columns[n]] = Null THEN <<Null>>
    ELSE [n \in 1..Len(columns) |-> row[columns[n]]]

\* with_columns(concat_str).group_by(column).agg(len).filter(count > 1)
ColumnUniquePairCall(self, f) ==
    LET grouped == {[key |-> k,
                     count |-> Cardinality({i \in 1..Len(f) :
                                               ConcatStr(f[i], self.column_list) = k})] :
                        k \in {ConcatStr(f[i], self.column_list) : i \in 1..Len(f)}}
    IN {g \in grouped : g.count > 1}

\* sum_horizontal(columns): missing values count as zero
RECURSIVE SumHorizontal(_, _)
SumHorizontal(row, columns) ==
    IF columns = <<>> THEN 0
    ELSE row[columns[1]] + SumHorizontal(row, Tail(columns))

\* filter(sum != sum_value).with_columns(concat_str).group_by(column).agg(count);
\* count does not count the missing keys
ColumnsSumToBeEqualToCall(self, f) ==
    LET kept == {i \in 1..Len(f) : SumHorizontal(f[i], self.columns_list) # self.sum_value}
    IN {[key |-> k,
         count |-> Cardinality({i \in kept : /\ ConcatStr(f[i], self.columns_list) = k
                                              /\ k # <<Null>>})] :
            k \in {ConcatStr(f[i], self.columns_list) : i \in kept}}

Call(self, f) ==
    CASE self.class = "ColumnBeNull" -> ColumnBeNullCall(self, f)
      [] self.class = "ColumnNotBeNull" -> ColumnNotBeNullCall(self, f)
      [] self.class = "ColumnUniqueValuesToBeInList" -> ColumnUniqueValuesToBeInListCall(self, f)
      [] self.class = "ColumnValuesToBeBetween" -> ColumnValuesToBeBetweenCall(self, f)
      [] self.class = "ColumnUniqueValueCountToBeBetween" ->
            ColumnUniqueValueCountToBeBetweenCall(self, f)
      [] self.class = "ColumnUniquePair" -> ColumnUniquePairCall(self, f)
      [] self.class = "ColumnsSumToBeEqualTo" -> ColumnsSumToBeEqualToCall(self, f)

fail_message(self) ==
    CASE self.class = "ColumnBeNull" ->
            "The column '" \o self.column \o "' doesn't have values that are null."
      [] self.class = "ColumnNotBeNull" ->
            "The column '" \o self.column \o "' has values that are null."
      [] self.class = "ColumnUniqueValuesToBeInList" ->
            "The column '" \o self.column \o "' has unique values that are not in the list."
      [] self.class = "ColumnValuesToBeBetween" ->
            "The column '" \o self.column \o "' has values that are not between "
                \o Str(self.min_value) \o " and " \o Str(self.max_value) \o "."
      [] self.class = "ColumnUniqueValueCountToBeBetween" ->
            "The column '" \o self.column \o "' has a number of unique values that "
                \o "is not between " \o Str(self.min_value) \o " and "
                \o Str(self.max_value) \o "."
      [] self.class = "ColumnUniquePair" ->
            "Duplicate entries found: The combination of columns [" \o self.column
                \o "] contains non-unique values."
      [] self.class = "ColumnsSumToBeEqualTo" ->
            "The columns " \o ReprList(self.columns_list) \o " do not sum to "
                \o Str(self.sum_value) \o "."

\* the rules the model attaches; "Z" is a column the frame does not have
RuleColumns == {"A", "B", "Z"}
BuiltinRules ==
    [class : {"ColumnBeNull", "ColumnNotBeNull"}, column : RuleColumns,
     values : {{}}, impact : Impacts, threshold : Thresholds]
    \cup
    [class : {"ColumnUniqueValuesToBeInList"}, column : {"B", "Z"},
     values : {{1}, {1, 2}}, impact : Impacts, threshold : Thresholds]

(***************************************************************************)
(* The execute step shared by every rule (base contract)                   *)
(***************************************************************************)
\* the columns of a frame
ColumnsOf(f) == IF f = <<>> THEN FrameColumns ELSE DOMAIN f[1]

\* the columns the violation query of a rule reads
QueryColumns(self) ==
    CASE self.class = "ColumnUniquePair" ->
            {self.column_list[n] : n \in 1..Len(self.column_list)}
      [] self.class = "ColumnsSumToBeEqualTo" ->
            {self.columns_list[n] : n \in 1..Len(self.columns_list)}
      [] OTHER -> {self.column}

\* the query fails on a column the frame does not have, and sum_horizontal
\* fails when it is given no column
QueryRaises(self, f) ==
    \/ ~(QueryColumns(self) \subseteq ColumnsOf(f))
    \/ QueryColumns(self) = {}

\* mutant: a zero denominator counts as everything failing
FractionZeroDenominatorAll(n, d) ==
    IF d = 0 THEN [num |-> 1, den |-> 1]
    ELSE IF n = 0 THEN [num |-> 0, den |-> 1] ELSE [num |-> n, den |-> d]

\* failed_number / frame_row_number, 0 when the denominator is 0
Fraction(n, d) == IF d = 0 \/ n = 0 THEN [num |-> 0, den |-> 1] ELSE [num |-> n, den |-> d]
\* mutants: a strict comparison, and the comparison turned around
ThresholdPassStrict(failed_percentage, threshold) ==
    failed_percentage.num * 100 < threshold * failed_percentage.den
ThresholdPassReversed(failed_percentage, threshold) ==
    failed_percentage.num * 100 >= threshold * failed_percentage.den

\* failed_percentage <= threshold, the threshold given as 100 * t
ThresholdPass(failed_percentage, threshold) ==
    failed_percentage.num * 100 <= threshold * failed_percentage.den

Status(failed_number, threshold_pass) ==
    IF failed_number = 0 \/ threshold_pass THEN "Success" ELSE "Fail"

ExecuteCheck(self, f, now) ==
    LET head == [validation |-> self.class, impact |-> self.impact,
                 timestamp |-> now, column |-> self.column]
    IN IF QueryRaises(self, f)
       THEN Put(head, "result",
                [status |-> "Fail",
                 message |-> "ERROR: column '" \o self.column \o "' not found"])
       ELSE LET groups == Call(self, f)
                failed_number == SumCounts(groups)
                frame_row_number == Len(f)
                failed_percentage == Fraction(failed_number, frame_row_number)
                threshold_pass == ThresholdPass(failed_percentage, self.threshold)
                status == Status(failed_number, threshold_pass)
            IN Put(head, "result",
                   [status |-> status,
                    threshold_pass |-> threshold_pass,
                    message |-> IF status = "Fail" THEN fail_message(self)
                                ELSE "All items passed the validation.",
                    failing_items |-> {g.key : g \in groups},
                    failed_number |-> failed_number,
                    frame_row_number |-> frame_row_number,
                    threshold |-> self.threshold,
                    failed_percentage |-> failed_percentage])

(***************************************************************************)
(* Validate session                                                        *)
(***************************************************************************)
\* the state of the rule discovery of a session whose construction completed
Discovered ==
    [catalogue |-> <<>>, category |-> 1, file |-> 1, bound |-> {}, attached |-> {},
     log |-> <<>>, exc |-> "None", done |-> TRUE]

NoValidationChecks == "No validation checks were added."

\* self.results after __init__
InitResults ==
    <<[k |-> "Summary",
       v |-> [passed |-> "None", validations |-> [str |-> NoValidationChecks]]]>>

NoMsg == [text |-> "", failed_validations |-> <<>>, json |-> <<>>]
Outcome(op, exc, msg, returned, raise_results) ==
    [op |-> op, exc |-> exc, msg |-> msg, returned |-> returned,
     raise_results |-> raise_results]

\* mutant: a Success sets passed to True whatever it was
SummaryAfterStatusAnySuccess(summary, status, name) ==
    IF status = "Fail"
    THEN LET failed == Put(summary, "passed", "False")
         IN IF "Failed Validation" \notin DOMAIN failed
            THEN Put(failed, "Failed Validation", <<name>>)
            ELSE Put(failed, "Failed Validation",
                     Append(failed["Failed Validation"], name))
    ELSE IF status = "Success"
         THEN Put(summary, "passed", "True")
         ELSE summary

\* __parse_results__, lines 102-109: the Summary after the status is rolled up
SummaryAfterStatus(summary, status, name) ==
    IF status = "Fail"
    THEN LET failed == Put(summary, "passed", "False")
         IN IF "Failed Validation" \notin DOMAIN failed
            THEN Put(failed, "Failed Validation", <<name>>)
            ELSE Put(failed, "Failed Validation",
                     Append(failed["Failed Validation"], name))
    ELSE IF summary["passed"] = "None" /\ status = "Success"
         THEN Put(summary, "passed", "True")
         ELSE summary

\* __parse_results__, lines 111-114: the Summary after the name is listed
SummaryAfterName(summary, name) ==
    IF "str" \in DOMAIN summary["validations"]
    THEN Put(summary, "validations", [list |-> <<name>>])
    ELSE Put(summary, "validations",
             [list |-> Append(summary["validations"].list, name)])

\* __parse_results__: the report after the call and the exception it raised.
\* Reading a key the Summary entry does not have is a KeyError; it leaves the
\* assignments made before it in place.
ParseResults(d, result, name) ==
    LET status == result["result"].status
        summary == Get(d, "Summary")
        keyError108 == status # "Fail" /\ "passed" \notin DOMAIN summary
    IN IF keyError108 THEN [results |-> d, exc |-> "KeyError"]
       ELSE LET s1 == SummaryAfterStatus(summary, status, name)
            IN IF "validations" \notin DOMAIN s1
               THEN [results |-> Update(d, "Summary", s1), exc |-> "KeyError"]
               ELSE [results |-> Update(Update(d, "Summary", SummaryAfterName(s1, name)),
                                        name, result),
                     exc |-> "None"]

\* one attachment that reached __parse_results__: the object attached, the
\* name and Result handed over, and the exception __parse_results__ raised
Attachment(op, validation, name, result, exc) ==
    [op |-> op, validation |-> validation, name |-> name, result |-> result,
     exc |-> exc]

Record(op, validation, name, result) ==
    LET parsed == ParseResults(results, result, name)
    IN /\ results' = parsed.results
       /\ history' = Append(history, Attachment(op, validation, name, result, parsed.exc))
       /\ last' = Outcome(op, parsed.exc, NoMsg,
                          IF parsed.exc = "None" THEN "self" ELSE "nothing", FALSE)

\* the rules attached through the category methods of the session
SessionThresholds == {0, 50}
SessionRules ==
    {r \in BuiltinRules : /\ r.class = "ColumnNotBeNull"
                          /\ \/ r.column = "A" /\ r.threshold \in SessionThresholds
                             \/ r.column = "Z" /\ r.threshold = 0}

\* min_max_arg_check: at least one of the two bounds must be given
min_max_arg_check(min_value, max_value) ==
    IF min_value = None /\ max_value = None THEN "ValueError" ELSE "None"

Constructed(exc, msg, self) == [exc |-> exc, msg |-> msg, self |-> self]

\* mutant: the constructors accept every parameter
ConstructUnchecked(args) ==
    CASE args.class = "ColumnUniquePair" ->
            Constructed("None", "", Put(args, "column", Join(args.column_list, " - ")))
      [] args.class = "ColumnsSumToBeEqualTo" ->
            Constructed("None", "",
                        Put(args, "column", Join(args.columns_list, "-") \o "-combined"))
      [] OTHER -> Constructed("None", "", args)

\* validation_class(*args, **kwargs): the __init__ of the rule classes, giving
\* the exception raised or the instance with its target identifier (column)
Construct(args) ==
    CASE args.class = "ColumnUniquePair" ->
            IF Len(args.column_list) > 0
            THEN Constructed("None", "",
                             Put(args, "column", Join(args.column_list, " - ")))
            ELSE Constructed("AssertionError", "At least two columns are required.", args)
      [] args.class = "ColumnsSumToBeEqualTo" ->
            Constructed("None", "",
                        Put(args, "column", Join(args.columns_list, "-") \o "-combined"))
      [] args.class \in {"ColumnValuesToBeBetween", "ColumnUniqueValueCountToBeBetween"} ->
            Constructed(min_max_arg_check(args.min_value, args.max_value), "", args)
      [] OTHER -> Constructed("None", "", args)

\* session.<Category>.<RuleName>(...) -> __create_validation_class__
CreateValidationClass(args) ==
    /\ Len(history) < MaxAttach
    /\ LET made == Construct(args)
       IN IF made.exc # "None"
          THEN /\ last' = Outcome("builtin", made.exc, [NoMsg EXCEPT !.text = made.msg],
                                  "nothing", FALSE)
               /\ UNCHANGED <<results, history, clock>>
          ELSE LET validation == made.self
                   result == ExecuteCheck(validation, frame, clock)
                   name == validation.class \o "_" \o validation.column
               IN /\ Record("builtin", validation, name, result)
                  /\ clock' = clock + 1
    /\ UNCHANGED <<frame, rule, res, loader, sessions>>

(***************************************************************************)
(* add_validation: the objects a caller may pass                           *)
(*   rule      an instance with __execute_check__ that returns a Result    *)
(*   raises    an instance whose __execute_check__ raises                  *)
(*   class     a class without __execute_check__                          *)
(*   instance  an instance of such a class                                 *)
(***************************************************************************)
CustomImpacts == {"absent", "HIGH"}
CustomObjects ==
    [kind : {"rule"}, class : {"MyCustomValidation"}, column : {"A"},
     status : {"Success", "Fail"}, impact : CustomImpacts]
    \cup
    [kind : {"raises"}, class : {"MyCustomValidation"}, column : {"A"},
     status : {"Fail"}, impact : {"absent"}]
    \cup
    [kind : {"class"}, class : {"FailValidation", "Summary"}, column : {"A"},
     status : {"Fail"}, impact : {"absent"}]
    \cup
    [kind : {"instance"}, class : {"FailValidation"}, column : {"A"},
     status : {"Fail"}, impact : {"absent"}]

\* what a custom object's __execute_check__ returns
CustomResult(validation, now) ==
    LET body == [validation |-> validation.class, timestamp |-> now,
                 column |-> validation.column,
                 result |-> [status |-> validation.status,
                             message |-> IF validation.status = "Fail"
                                         THEN "My new custom validation failed!"
                                         ELSE "All items passed the validation."]]
    IN IF validation.impact = "absent" THEN body
       ELSE Put(body, "impact", validation.impact)

HasExecuteCheck(validation) == validation.kind \in {"rule", "raises"}

AddValidation(validation) ==
    /\ Len(history) < MaxAttach
    /\ IF HasExecuteCheck(validation)
       THEN IF validation.kind = "raises"
            THEN Record("add_validation", validation, "InvalidValidationCheck",
                        [result |-> [status |-> "Fail",
                                     message |-> "An error occured while executing "
                                                 \o validation.class \o " - error"]])
            ELSE Record("add_validation", validation,
                        validation.class \o "_" \o validation.column,
                        CustomResult(validation, clock))
       ELSE IF validation.kind = "class"
            THEN Record("add_validation", validation, validation.class,
                        [result |-> [status |-> "Fail",
                                     message |-> validation.class
                                                 \o " is not a valid validation check."]])
            ELSE \* validation.__name__ of an instance: AttributeError
                 /\ last' = Outcome("add_validation", "AttributeError", NoMsg,
                                    "nothing", FALSE)
                 /\ UNCHANGED <<results, history>>
    /\ clock' = IF validation.kind = "rule" THEN clock + 1 ELSE clock
    /\ UNCHANGED <<frame, rule, res, loader, sessions>>

(***************************************************************************)
(* validate                                                                *)
(***************************************************************************)
\* str.lower() on the impact values that occur
Lower(impact) ==
    CASE impact = "HIGH" -> "high"
      [] OTHER -> impact

\* mutant: a missing impact defaults to low
ImpactOfDefaultLow(entry) == IF "impact" \in DOMAIN entry THEN entry["impact"] ELSE "low"

\* self.results[key].get("impact", "high")
ImpactOf(entry) == IF "impact" \in DOMAIN entry THEN entry["impact"] ELSE "high"

Failed(entry) == entry["result"].status = "Fail"
HighImpact(entry) == Lower(ImpactOf(entry)) = "high"

\* the scan of validate(): the keys appended to failed_validations, in dict order
FailedValidations(d) ==
    LET Escalated(item) == item.k # "Summary" /\ Failed(item.v) /\ HighImpact(item.v)
    IN Keys(SelectSeq(d, Escalated))

\* mutant: every failed entry is kept, whatever its impact
FilteredResultsEveryFail(d, failed_validations) ==
    LET Kept(item) == item.k = "Summary" \/ Failed(item.v)
    IN SelectSeq(d, Kept)

\* {key: self.results[key] for key in ["Summary", *failed_validations]}
FilteredResults(d, failed_validations) ==
    LET keys == <<"Summary">> \o failed_validations
    IN [i \in 1..Len(keys) |-> [k |-> keys[i], v |-> Get(d, keys[i])]]

\* json.dumps of a Python constant: None, True, False become null, true, false
JsonLiteral(value) ==
    CASE value = "None" -> "null"
      [] value = "True" -> "true"
      [] value = "False" -> "false"
JsonBool(value) == IF value THEN "true" ELSE "false"

\* json.dumps of one entry of the report: a JSON object with the same members
JsonObject(entry) ==
    LET inner == IF "result" \in DOMAIN entry
                    /\ "threshold_pass" \in DOMAIN entry["result"]
                 THEN Put(entry, "result",
                          [entry["result"] EXCEPT
                              !.threshold_pass = JsonBool(entry["result"].threshold_pass)])
                 ELSE entry
    IN IF "passed" \in DOMAIN inner
       THEN Put(inner, "passed", JsonLiteral(inner["passed"]))
       ELSE inner

\* json.dumps(filtered_results, indent=4): one member per key, in dict order
JsonDumps(d) == [i \in 1..Len(d) |-> [k |-> d[i].k, v |-> JsonObject(d[i].v)]]

\* mutant: the JSON report is embedded whatever raise_results is
ValueErrorMsgAlwaysJson(d, failed_validations, raise_results) ==
    [text |-> "Failed Validation(s): ",
     failed_validations |-> failed_validations,
     json |-> JsonDumps(FilteredResults(d, failed_validations))]

\* value_error_msg, lines 207-214: the prefix, the list of the escalated names
\* and, with raise_results, the JSON text on a new line
ValueErrorMsg(d, failed_validations, raise_results) ==
    [text |-> "Failed Validation(s): ",
     failed_validations |-> failed_validations,
     json |-> IF raise_results
              THEN JsonDumps(FilteredResults(d, failed_validations))
              ELSE <<>>]

\* mutant: the empty check looks for an empty dict
NoChecksAddedEmptyDict(d) == Len(d) = 0

\* self.results.keys().__len__() == 1
NoChecksAdded(d) == Len(d) = 1

ValidateOutcome(d, raise_results) ==
    IF NoChecksAdded(d)
    THEN Outcome("validate", "ValueError",
                 [text |-> NoValidationChecks, failed_validations |-> <<>>, json |-> <<>>],
                 "nothing", raise_results)
    ELSE LET failed_validations == FailedValidations(d)
         IN IF failed_validations # <<>>
            THEN Outcome("validate", "ValueError",
                         ValueErrorMsg(d, failed_validations, raise_results),
                         "nothing", raise_results)
            ELSE Outcome("validate", "None", NoMsg, "self", raise_results)

\* mutant: the filtered report replaces self.results
ValidateResultsFiltered(d) == FilteredResults(d, FailedValidations(d))

\* the report validate() leaves behind
ValidateResults(d) == d

Validate(raise_results) ==
    /\ last' = ValidateOutcome(results, raise_results)
    /\ results' = ValidateResults(results)
    /\ UNCHANGED <<frame, clock, history, rule, res, loader, sessions>>

(***************************************************************************)
(* Session specification                                                   *)
(***************************************************************************)
SessionFrames ==
    {<<>>,
     <<[A |-> Null, B |-> 1], [A |-> 1, B |-> 2]>>}

Init ==
    /\ frame \in SessionFrames
    /\ results = InitResults
    /\ clock = 0
    /\ last = Outcome("init", "None", NoMsg, "nothing", FALSE)
    /\ history = <<>>
    /\ loader = Discovered
    /\ sessions = <<>>
    /\ rule = <<>>
    /\ res = <<>>

Next ==
    \/ \E validation \in SessionRules : CreateValidationClass(validation)
    \/ \E validation \in CustomObjects : AddValidation(validation)
    \/ \E raise_results \in BOOLEAN : Validate(raise_results)

Spec == Init /\ [][Next]_vars

(***************************************************************************)
(* Catalogue specification: a session to which the rules with constructor  *)
(* checks and the multi-column rules are attached                          *)
(***************************************************************************)
CatalogueFrames ==
    {<<>>,
     <<[A |-> Null, B |-> 1], [A |-> 1, B |-> 2]>>,
     <<[A |-> 1, B |-> 2], [A |-> 1, B |-> 2]>>}

\* the parameters handed to the category methods
CatalogueCalls ==
    [class : {"ColumnUniquePair"}, column_list : {<<>>, <<"A", "B">>, <<"A", "Z">>},
     impact : {"high"}, threshold : {0}]
    \cup
    [class : {"ColumnsSumToBeEqualTo"}, columns_list : {<<>>, <<"A", "B">>},
     sum_value : {3}, impact : {"low", "high"}, threshold : {0}]
    \cup
    [class : {"ColumnValuesToBeBetween"}, column : {"A"},
     min_value : {None, 2}, max_value : {None, 1}, impact : {"high"},
     threshold : {0, 50}]

InitCatalogue ==
    /\ frame \in CatalogueFrames
    /\ results = InitResults
    /\ clock = 0
    /\ last = Outcome("init", "None", NoMsg, "nothing", FALSE)
    /\ history = <<>>
    /\ loader = Discovered
    /\ sessions = <<>>
    /\ rule = <<>>
    /\ res = <<>>

NextCatalogue ==
    \/ \E args \in CatalogueCalls : CreateValidationClass(args)
    \/ \E raise_results \in BOOLEAN : Validate(raise_results)

SpecCatalogue == InitCatalogue /\ [][NextCatalogue]_vars

(***************************************************************************)
(* Rule specification: one rule executed on one frame, then executed again *)
(* with another threshold                                                  *)
(***************************************************************************)
InitRule ==
    /\ frame \in Frames
    /\ rule \in BuiltinRules
    /\ res = <<>>
    /\ results = InitResults
    /\ clock = 0
    /\ last = Outcome("init", "None", NoMsg, "nothing", FALSE)
    /\ history = <<>>
    /\ loader = Discovered
    /\ sessions = <<>>

Execution(self, result) == [rule |-> self, result |-> result]

Execute ==
    /\ res = <<>>
    /\ res' = <<ExecuteCheck(rule, frame, clock)>>
    /\ history' = <<Execution(rule, res'[1])>>
    /\ UNCHANGED <<frame, results, clock, last, rule, loader, sessions>>

\* the same rule on the same frame, with another threshold
ExecuteWithThreshold(threshold) ==
    /\ res # <<>>
    /\ Len(history) < MaxExecute
    /\ rule' = [rule EXCEPT !.threshold = threshold]
    /\ res' = <<ExecuteCheck(rule', frame, clock)>>
    /\ history' = Append(history, Execution(rule', res'[1]))
    /\ UNCHANGED <<frame, results, clock, last, loader, sessions>>

NextRule ==
    \/ Execute
    \/ \E threshold \in Thresholds : ExecuteWithThreshold(threshold)

SpecRule == InitRule /\ [][NextRule]_vars

(***************************************************************************)
(* Between specification: ColumnValuesToBeBetween executed on a frame of   *)
(* values 1..5                                                             *)
(***************************************************************************)
BetweenValues == 1..5
BetweenFrames == SeqsUpTo({[A |-> v, B |-> v] : v \in BetweenValues}, MaxBetweenRows)
BetweenThresholds == {0, 50, 60}
\* the parameters of the rules of the between family, and the instances
\* their constructors accept
BetweenArgs ==
    [class : {"ColumnValuesToBeBetween", "ColumnUniqueValueCountToBeBetween"},
     column : {"A"}, min_value : {None, 1, 3}, max_value : {None, 2},
     impact : {"low"}, threshold : BetweenThresholds]
BetweenRules ==
    {Construct(args).self : args \in {a \in BetweenArgs : Construct(a).exc = "None"}}

InitBetween ==
    /\ frame \in BetweenFrames
    /\ rule \in BetweenRules
    /\ res = <<>>
    /\ results = InitResults
    /\ clock = 0
    /\ last = Outcome("init", "None", NoMsg, "nothing", FALSE)
    /\ history = <<>>
    /\ loader = Discovered
    /\ sessions = <<>>

NextBetween == Execute

SpecBetween == InitBetween /\ [][NextBetween]_vars

(***************************************************************************)
(* Cities specification: ColumnUniqueValuesToBeInList executed on a column *)
(* of city names                                                           *)
(***************************************************************************)
Repeat(value, n) == [i \in 1..n |-> [cities |-> value]]
CityFrame(berlin, rome, paris) ==
    Repeat("Berlin", berlin) \o Repeat("Rome", rome) \o Repeat("Paris", paris)
CityFrames ==
    {CityFrame(b, r, p) : <<b, r, p>> \in
        {t \in (0..MaxCityRows) \X (0..MaxCityRows) \X (0..MaxCityRows) :
            t[1] + t[2] + t[3] \in 1..MaxCityRows}}
CityThresholds == {0, 1, 50}
CityRules ==
    [class : {"ColumnUniqueValuesToBeInList"}, column : {"cities"},
     values : {{"Berlin", "Rome"}, {"Paris", "Rome", "Berlin"}},
     impact : {"low"}, threshold : CityThresholds]

InitCities ==
    /\ frame \in CityFrames
    /\ rule \in CityRules
    /\ res = <<>>
    /\ results = InitResults
    /\ clock = 0
    /\ last = Outcome("init", "None", NoMsg, "nothing", FALSE)
    /\ history = <<>>
    /\ loader = Discovered
    /\ sessions = <<>>

NextCities == Execute

SpecCities == InitCities /\ [][NextCities]_vars

(***************************************************************************)
(* Discovery specification: __generate_validation_attributes__ walks the   *)
(* category folders of the catalogue and binds one method per rule class.  *)
(* A file is one of                                                        *)
(*   rule       loads and defines the class named after the file           *)
(*   helper     loads and defines no class named after the file            *)
(*   no_loader  its import spec has no loader                              *)
(*   broken     executing the module raises                                *)
(***************************************************************************)
FileKinds == {"rule", "helper", "no_loader", "broken"}
Categories == <<"NullValidation", "ValuesValidation">>
Catalogues ==
    {[c \in 1..Len(Categories) |-> [name |-> Categories[c], files |-> files[c]]] :
        files \in [1..Len(Categories) -> SeqsUpTo(FileKinds, MaxFiles)]}

\* one pass of the inner loop (lines 47-79): load a file and bind its class
LoadFile ==
    /\ ~loader.done
    /\ loader.exc = "None"
    /\ loader.category <= Len(loader.catalogue)
    /\ loader.file <= Len(loader.catalogue[loader.category].files)
    /\ LET subdir == loader.catalogue[loader.category]
           kind == subdir.files[loader.file]
       IN loader' =
            CASE kind = "rule" ->
                    [loader EXCEPT !.bound = @ \cup {<<subdir.name, loader.file>>},
                                   !.file = @ + 1]
              [] kind = "helper" -> [loader EXCEPT !.file = @ + 1]
              [] kind = "no_loader" ->
                    [loader EXCEPT !.log = Append(@, <<subdir.name, loader.file>>),
                                   !.file = @ + 1]
              [] kind = "broken" -> [loader EXCEPT !.exc = "Exception"]
    /\ UNCHANGED <<frame, results, clock, last, history, rule, res, sessions>>

\* line 82: the category object is attached to the session
AttachCategory ==
    /\ ~loader.done
    /\ loader.exc = "None"
    /\ loader.category <= Len(loader.catalogue)
    /\ loader.file > Len(loader.catalogue[loader.category].files)
    /\ loader' = [loader EXCEPT
                     !.attached = @ \cup {loader.catalogue[loader.category].name},
                     !.category = @ + 1,
                     !.file = 1,
                     !.done = (loader.category = Len(loader.catalogue))]
    /\ UNCHANGED <<frame, results, clock, last, history, rule, res, sessions>>

InitDiscovery ==
    /\ loader \in {[catalogue |-> c, category |-> 1, file |-> 1, bound |-> {},
                    attached |-> {}, log |-> <<>>, exc |-> "None", done |-> FALSE] :
                      c \in Catalogues}
    /\ frame = <<>>
    /\ results = InitResults
    /\ clock = 0
    /\ last = Outcome("init", "None", NoMsg, "nothing", FALSE)
    /\ rule = <<>>
    /\ res = <<>>
    /\ sessions = <<>>
    /\ history = <<>>

NextDiscovery ==
    \/ LoadFile
    \/ AttachCategory

SpecDiscovery == InitDiscovery /\ [][NextDiscovery]_vars

(***************************************************************************)
(* Several sessions alive at once.  A session is an element of sessions,   *)
(* identified by its position; its category methods are the closures made  *)
(* by __make_validation_method__.                                          *)
(***************************************************************************)
MaxSessions == 2
MaxSessionAttach == 2

\* the rules and objects the callers attach
SessionsRules ==
    {r \in SessionRules : r.column = "A" /\ r.impact = "high"}
SessionsObjects ==
    {o \in CustomObjects : o.kind = "rule" /\ o.impact = "absent"}
    \cup {o \in CustomObjects : o.kind = "class" /\ o.class = "FailValidation"}
SessionsClasses == {r.class : r \in SessionsRules}

\* mutant: the closure refers to the first session constructed
MakeValidationMethodShared(self, class_obj) == [self |-> 1, class_obj |-> class_obj]

\* __make_validation_method__: validation_method closes over self and class_obj
MakeValidationMethod(self, class_obj) == [self |-> self, class_obj |-> class_obj]

\* the session object after __init__: its own report, its frame, and one
\* fresh category object whose methods are closures over this session
NewValidate(self, f) ==
    [frame |-> f,
     results |-> InitResults,
     methods |-> [c \in SessionsClasses |-> MakeValidationMethod(self, c)]]

\* Validate(frame)
ValidateInit(f) ==
    /\ Len(sessions) < MaxSessions
    /\ sessions' = Append(sessions, NewValidate(Len(sessions) + 1, f))
    /\ last' = [op |-> "init", session |-> Len(sessions) + 1, validation |-> <<>>,
                exc |-> "None"]
    /\ UNCHANGED <<frame, results, clock, history, rule, res, loader>>

\* sessions[x].<Category>.<RuleName>(...): the closure calls
\* __create_validation_class__ on the session it closed over
ValidationMethod(x, args) ==
    /\ x \in DOMAIN sessions
    /\ clock < MaxSessionAttach
    /\ LET method == sessions[x].methods[args.class]
           self == method.self
           made == Construct(args)
       IN IF made.exc # "None"
          THEN /\ last' = [op |-> "builtin", session |-> x, validation |-> args,
                           exc |-> made.exc]
               /\ UNCHANGED sessions
          ELSE LET validation == made.self
                   result == ExecuteCheck(validation, sessions[self].frame, clock)
                   name == validation.class \o "_" \o validation.column
                   parsed == ParseResults(sessions[self].results, result, name)
               IN /\ sessions' = [sessions EXCEPT ![self].results = parsed.results]
                  /\ last' = [op |-> "builtin", session |-> x,
                              validation |-> validation, exc |-> parsed.exc]
    /\ clock' = clock + 1
    /\ UNCHANGED <<frame, results, history, rule, res, loader>>

\* sessions[x].add_validation(validation)
SessionAddValidation(x, validation) ==
    /\ x \in DOMAIN sessions
    /\ clock < MaxSessionAttach
    /\ IF validation.kind = "instance"
       THEN /\ last' = [op |-> "add_validation", session |-> x,
                        validation |-> validation, exc |-> "AttributeError"]
            /\ UNCHANGED sessions
       ELSE LET name == CASE validation.kind = "rule" ->
                                 validation.class \o "_" \o validation.column
                          [] validation.kind = "raises" -> "InvalidValidationCheck"
                          [] validation.kind = "class" -> validation.class
                result ==
                    CASE validation.kind = "rule" -> CustomResult(validation, clock)
                      [] validation.kind = "raises" ->
                             [result |-> [status |-> "Fail",
                                          message |-> "An error occured while executing "
                                                      \o validation.class \o " - error"]]
                      [] validation.kind = "class" ->
                             [result |-> [status |-> "Fail",
                                          message |-> validation.class
                                                      \o " is not a valid validation check."]]
                parsed == ParseResults(sessions[x].results, result, name)
            IN /\ sessions' = [sessions EXCEPT ![x].results = parsed.results]
               /\ last' = [op |-> "add_validation", session |-> x,
                           validation |-> validation, exc |-> parsed.exc]
    /\ clock' = clock + 1
    /\ UNCHANGED <<frame, results, history, rule, res, loader>>

InitSessions ==
    /\ sessions = <<>>
    /\ clock = 0
    /\ last = [op |-> "none", session |-> 0, validation |-> <<>>, exc |-> "None"]
    /\ frame = <<>>
    /\ results = InitResults
    /\ history = <<>>
    /\ rule = <<>>
    /\ res = <<>>
    /\ loader = Discovered

NextSessions ==
    \/ \E f \in SessionFrames : ValidateInit(f)
    \/ \E x \in 1..MaxSessions, args \in SessionsRules : ValidationMethod(x, args)
    \/ \E x \in 1..MaxSessions, validation \in SessionsObjects :
           SessionAddValidation(x, validation)

SpecSessions == InitSessions /\ [][NextSessions]_vars

(***************************************************************************)
(* Properties                                                              *)
(***************************************************************************)
Summary == Get(results, "Summary")
Passed == IF "passed" \in DOMAIN Summary THEN Summary["passed"] ELSE "absent"

\* the attachments whose Result was recorded (__parse_results__ completed)
Recorded == SelectSeq(history, LAMBDA a : a.exc = "None")
StatusOf(r) == r["result"].status

\* a Result that is Fail with impact high, no recorded impact counting as high
Escalating(r) ==
    /\ StatusOf(r) = "Fail"
    /\ "impact" \in DOMAIN r => r["impact"] \in {"high", "HIGH"}

AggregateRaised ==
    /\ last.op = "validate"
    /\ last.exc = "ValueError"
    /\ last.msg.text = "Failed Validation(s): "
EmptyRaised ==
    /\ last.op = "validate"
    /\ last.exc = "ValueError"
    /\ last.msg.text = "No validation checks were added."
    /\ last.returned = "nothing"
ReturnedNormally ==
    /\ last.op = "validate"
    /\ last.exc = "None"
    /\ last.returned = "self"

C2_PassedMonotonic ==
    [][Passed = "False" => Passed' \notin {"True", "None"}]_vars

\* passed is False and a Success was recorded after the failure
C2_Witness ==
    /\ Passed = "False"
    /\ \E i, j \in DOMAIN Recorded :
          /\ i < j
          /\ StatusOf(Recorded[i].result) = "Fail"
          /\ StatusOf(Recorded[j].result) = "Success"
    /\ last.op = "validate"

\* C3 as stated: passed is None iff no Result was recorded, True iff at least
\* one was recorded and all were Success, False iff some recorded Result was
\* Fail.
C3_PassedTriState ==
    LET someFail == \E i \in DOMAIN Recorded : StatusOf(Recorded[i].result) = "Fail"
    IN /\ Passed = "None" <=> Recorded = <<>>
       /\ Passed = "True" <=> (Recorded # <<>> /\ ~someFail)
       /\ Passed = "False" <=> someFail

\* C4: validate() on a session to which no rule was ever attached raises
\* "No validation checks were added." and does not return the session.
C4_EmptyRaises ==
    (last.op = "validate" /\ history = <<>>) => EmptyRaised

C4_Witness == last.op = "validate" /\ history = <<>> /\ Len(results) = 1

\* C5: a validate() step leaves the report as it was, whether it raises or
\* returns and for either raise_results, and what it returns is the session.
C5_ValidateFrame ==
    [][last'.op = "validate" =>
          /\ results' = results
          /\ last'.exc = "None" => last'.returned = "self"]_vars

\* validate(raise_results=True) raised with a passing entry in the report
C5_Witness ==
    /\ AggregateRaised
    /\ last.raise_results
    /\ \E i \in 1..Len(results) :
          results[i].k # "Summary" /\ StatusOf(results[i].v) = "Success"

\* an attachment of a rule: through a category method, or a custom rule
\* instance through add_validation
IsRule(a) == a.op = "builtin" \/ a.validation.kind = "rule"
ExceptTimestamp(r) == [key \in DOMAIN r \ {"timestamp"} |-> r[key]]
Occurrences(seq, e) == Cardinality({i \in DOMAIN seq : seq[i] = e})

\* C9 as stated: attaching the same rule on the same target twice with
\* identical parameters yields two Results equal except for timestamp, the
\* second overwrites the first, the report keeps exactly one entry for the
\* name and Summary.validations lists the name twice.
C9_AttachTwice ==
    \A i, j \in DOMAIN history :
        (/\ i < j
         /\ j = Len(history)
         /\ IsRule(history[i])
         /\ history[i].op = history[j].op
         /\ history[i].validation = history[j].validation)
        => LET name == history[j].name
           IN /\ ExceptTimestamp(history[i].result) = ExceptTimestamp(history[j].result)
              /\ Occurrences(Keys(results), name) = 1
              /\ Get(results, name) = history[j].result
              /\ "validations" \in DOMAIN Summary
              /\ "list" \in DOMAIN Summary["validations"]
              /\ Occurrences(Summary["validations"].list, name) >= 2

\* C10 as stated: Summary.validations is the sentinel string exactly while
\* no Result has been recorded; after n >= 1 attachments it is the list of
\* the n names in attachment order, duplicates kept.
C10_ValidationsList ==
    /\ "validations" \in DOMAIN Summary
    /\ IF Recorded = <<>>
       THEN Summary["validations"] = [str |-> "No validation checks were added."]
       ELSE /\ "list" \in DOMAIN Summary["validations"]
            /\ Summary["validations"].list
                  = [i \in DOMAIN Recorded |-> Recorded[i].name]

\* the names of the recorded attachments whose Result was Fail, in order
FailedNames == Keys(SelectSeq([i \in DOMAIN Recorded |->
                                  [k |-> Recorded[i].name, v |-> Recorded[i].result]],
                              LAMBDA item : StatusOf(item.v) = "Fail"))

\* C11 as stated: once a Fail Result was recorded, the Summary holds a field
\* named failed_validation whose value is the list, in attachment order, of
\* the names of the attachments whose Result was Fail.
C11_FailedValidationField ==
    FailedNames # <<>> =>
        /\ "failed_validation" \in DOMAIN Summary
        /\ Summary["failed_validation"] = FailedNames

\* the report entries other than Summary that validate() escalates
EscalatedKeys ==
    Keys(SelectSeq(results, LAMBDA item : item.k # "Summary" /\ Escalating(item.v)))
JsonKeys == {last.msg.json[i].k : i \in 1..Len(last.msg.json)}

\* C12 as stated: when validate(raise_results=True) raises the aggregate
\* failure, the top-level keys of the embedded JSON are exactly Summary plus
\* the keys of every entry whose status is Fail, and no key of a passing entry.
C12_Original ==
    (AggregateRaised /\ last.raise_results) =>
        JsonKeys = {"Summary"} \cup
                   {results[i].k : i \in {j \in 1..Len(results) :
                                              /\ "result" \in DOMAIN results[j].v
                                              /\ Failed(results[j].v)}}

\* C12 amended: when validate(raise_results=True) raises the aggregate
\* failure, the embedded JSON has one member per key, the keys being exactly
\* Summary followed by the escalated entries (status Fail and impact high, no
\* recorded impact counting as high) in report order; no key of a passing
\* entry and no key of a failed entry of medium or low impact is included.
C12_JsonKeys ==
    (AggregateRaised /\ last.raise_results) =>
        /\ Keys(last.msg.json) = <<"Summary">> \o EscalatedKeys
        /\ \A i \in 1..Len(results) :
              (results[i].k # "Summary" /\ ~Escalating(results[i].v))
                  => results[i].k \notin JsonKeys
        /\ \A i \in 1..Len(last.msg.json) :
              last.msg.json[i].v = JsonObject(Get(results, last.msg.json[i].k))

\* the JSON was embedded while the report held a passing entry and a failed
\* entry that is not of high impact
C12_Witness ==
    /\ AggregateRaised
    /\ last.raise_results
    /\ Len(last.msg.json) = 2
    /\ \E i \in 1..Len(results) :
          results[i].k # "Summary" /\ StatusOf(results[i].v) = "Success"
    /\ \E i \in 1..Len(results) :
          /\ results[i].k # "Summary"
          /\ StatusOf(results[i].v) = "Fail"
          /\ ~Escalating(results[i].v)

\* C13: when validate() raises the aggregate failure with raise_results
\* false, the message lists the name of every escalated (failed, high-impact)
\* entry and embeds no JSON text.
C13_NoJsonByDefault ==
    (AggregateRaised /\ ~last.raise_results) =>
        /\ last.msg.failed_validations = EscalatedKeys
        /\ last.msg.failed_validations # <<>>
        /\ last.msg.json = <<>>

\* two failures were escalated without raise_results
C13_Witness ==
    /\ AggregateRaised
    /\ ~last.raise_results
    /\ Len(last.msg.failed_validations) = 2
    /\ Len(results) > 3

\* the key made of the class name and the target identifier
ClassColumn(validation) == validation.class \o "_" \o validation.column

\* C14 as stated: an object with the execute capability whose execution
\* raises does not make add_validation raise; a Fail Result is recorded for
\* it under the key ClassName_column.
C14_RaisingStoredUnderName ==
    \A i \in DOMAIN history :
        (history[i].op = "add_validation" /\ history[i].validation.kind = "raises")
            => /\ history[i].exc = "None"
               /\ StatusOf(history[i].result) = "Fail"
               /\ history[i].name = ClassColumn(history[i].validation)
               /\ Has(results, ClassColumn(history[i].validation))

\* C15 as stated: add_validation of an object without the execute capability,
\* a plain class or an instance of one, does not raise and records a Fail
\* Result under the object's class name.
C15_NoCapabilityRecorded ==
    [][\A validation \in CustomObjects :
          (~HasExecuteCheck(validation) /\ AddValidation(validation))
              => /\ last'.exc = "None"
                 /\ Has(results', validation.class)
                 /\ StatusOf(Get(results', validation.class)) = "Fail"]_vars

\* an attachment whose execution errors: a built-in rule on a column the
\* dataset does not have, or a custom object whose execution raises
ExecutionError(a) ==
    IF a.op = "builtin" THEN QueryRaises(a.validation, frame)
    ELSE a.validation.kind = "raises"

\* C16 as stated: no attach operation raises because of an execution error,
\* the error is recorded as a Fail Result, every rule attached afterwards is
\* still recorded, and the report holds one entry per distinct name attached.
C16_ErrorsNeverAbort ==
    /\ \A i \in DOMAIN history :
          ExecutionError(history[i])
              => history[i].exc = "None" /\ StatusOf(history[i].result) = "Fail"
    /\ \A i, j \in DOMAIN history :
          (i < j /\ ExecutionError(history[i])) => history[j].exc = "None"
    /\ KeySet(results) = {"Summary"} \cup {history[i].name : i \in DOMAIN history}

\* C19 as stated: every Result of a built-in rule attached through a category
\* method, and of a custom rule that executed without error, is stored in the
\* report under exactly the key <RuleClassName>_<target_identifier>.
C19_KeyNaming ==
    \A i \in DOMAIN history :
        IsRule(history[i]) =>
            /\ history[i].name = ClassColumn(history[i].validation)
            /\ Has(results, ClassColumn(history[i].validation))
            /\ i = Len(history)
                  => Get(results, ClassColumn(history[i].validation)) = history[i].result

\* C26 as stated: each attach operation executes its rule exactly once
\* against the session's dataset before it returns and records the Result
\* at that moment, so Results are recorded in attachment order; validate()
\* executes no rule and decides only from the Results already recorded.
C26_ExecuteOnAttach ==
    [][/\ (/\ Len(history') = Len(history) + 1
           /\ IsRule(history'[Len(history')]))
          => LET a == history'[Len(history')]
             IN /\ clock' = clock + 1
                /\ a.result["timestamp"] = clock
                /\ last'.exc = "None"
                /\ Has(results', a.name)
                /\ Get(results', a.name) = a.result
                /\ "validations" \in DOMAIN Get(results', "Summary")
                /\ "list" \in DOMAIN Get(results', "Summary")["validations"]
                /\ LET names == Get(results', "Summary")["validations"].list
                   IN names[Len(names)] = a.name
       /\ last'.op = "validate"
          => /\ clock' = clock
             /\ results' = results
             /\ history' = history
             /\ last' = ValidateOutcome(results, last'.raise_results)]_vars

\* the names the Summary lists as failed
FailedValidationList ==
    IF "Failed Validation" \in DOMAIN Summary
    THEN {Summary["Failed Validation"][n] : n \in DOMAIN Summary["Failed Validation"]}
    ELSE {}

\* the names under which the report currently stores a Fail Result
StoredFailNames ==
    {results[j].k : j \in {n \in DOMAIN results :
                             /\ results[n].k # "Summary"
                             /\ StatusOf(results[n].v) = "Fail"}}

\* C27 as stated: after any sequence of attachments, a name is in the
\* Summary's failed-validation list iff the Result currently stored under
\* that name is Fail, and Summary.passed is False iff some stored Result is
\* Fail.
C27_SummaryMatchesStored ==
    /\ FailedValidationList = StoredFailNames
    /\ ("passed" \in DOMAIN Summary /\ Summary["passed"] = "False")
           <=> StoredFailNames # {}

\* C28 as stated: the Summary entry is always the summary record with its
\* passed and validations fields, never a rule Result, whatever the attached
\* objects are named; and validate() after at least one attachment never
\* reports "No validation checks were added."
C28_SummaryNeverReplaced ==
    /\ {"passed", "validations"} \subseteq DOMAIN Summary
    /\ "result" \notin DOMAIN Summary
    /\ (last.op = "validate" /\ history # <<>>) => ~EmptyRaised

\* the names Summary.validations lists
SummaryValidations ==
    IF /\ "validations" \in DOMAIN Summary
       /\ "list" \in DOMAIN Summary["validations"]
    THEN {Summary["validations"].list[n] : n \in DOMAIN Summary["validations"].list}
    ELSE {}

AttachedName(op, validation) ==
    IF op = "builtin" \/ validation.kind = "rule"
    THEN validation.class \o "_" \o validation.column
    ELSE validation.class
AttachedResult(op, validation, f, now) ==
    IF op = "builtin" THEN ExecuteCheck(validation, f, now)
    ELSE IF validation.kind = "rule" THEN CustomResult(validation, now)
    ELSE [result |-> [status |-> "Fail",
                      message |-> validation.class
                                  \o " is not a valid validation check."]]

\* the report of session x after that operation
ExpectedResults(x, op, validation, now) ==
    ParseResults(sessions[x].results,
                 AttachedResult(op, validation, sessions[x].frame, now),
                 AttachedName(op, validation)).results

\* C29: sessions are isolated.  With several sessions alive, in any
\* interleaving of constructions and attachments, a rule invoked through
\* session x's category attribute or x.add_validation executes against x's
\* dataset and changes only x's report; every other session's report, frame
\* and bound category methods are unchanged, and x's own methods and frame
\* too; constructing a session changes no existing session.
C29_SessionsIsolated ==
    [][/\ \A j \in DOMAIN sessions :
              /\ j \in DOMAIN sessions'
              /\ sessions'[j].methods = sessions[j].methods
              /\ sessions'[j].frame = sessions[j].frame
       /\ last'.op = "init" => \A j \in DOMAIN sessions : sessions'[j] = sessions[j]
       /\ last'.op \in {"builtin", "add_validation"} =>
              LET x == last'.session
              IN /\ \A j \in DOMAIN sessions \ {x} : sessions'[j] = sessions[j]
                 /\ sessions'[x].results =
                        ExpectedResults(x, last'.op, last'.validation, clock)
                 /\ sessions'[x].results # sessions[x].results]_vars

\* two sessions over different datasets, each with a recorded Result, the
\* last one recorded through the category method of the second session
C29_Witness ==
    /\ Len(sessions) = 2
    /\ sessions[1].frame # sessions[2].frame
    /\ Len(sessions[1].results) > 1
    /\ Len(sessions[2].results) > 1
    /\ last.op = "builtin"
    /\ last.session = 2
    /\ last.exc = "None"

(***************************************************************************)
(* Properties of the constructors (SpecCatalogue)                          *)
(***************************************************************************)
\* parameters a constructor rejects: no column for ColumnUniquePair, no
\* bound at all for ColumnValuesToBeBetween
InvalidParameters(args) ==
    \/ args.class = "ColumnUniquePair" /\ args.column_list = <<>>
    \/ args.class = "ColumnValuesToBeBetween"
          /\ args.min_value = None /\ args.max_value = None

\* C17: when a built-in rule invoked through a category method rejects its
\* constructor parameters, the call raises and the report (Summary.passed,
\* Summary.validations, the failed list, the entries) is as before the call.
C17_RejectedNotRecorded ==
    [][\A args \in CatalogueCalls :
          (InvalidParameters(args) /\ CreateValidationClass(args))
              => /\ last'.op = "builtin"
                 /\ last'.exc \in {"AssertionError", "ValueError"}
                 /\ last'.returned = "nothing"
                 /\ results' = results
                 /\ history' = history]_vars

\* a constructor rejected its parameters after a failure was recorded
C17_Witness ==
    /\ last.op = "builtin"
    /\ last.exc = "AssertionError"
    /\ Len(results) > 1
    /\ Passed = "False"

\* C18 as stated: constructing a multi-column rule with an empty column list
\* fails at construction time, before any execution to a Result.
C18_EmptyColumnListRejected ==
    [][\A args \in CatalogueCalls :
          (/\ \/ args.class = "ColumnUniquePair" /\ args.column_list = <<>>
              \/ args.class = "ColumnsSumToBeEqualTo" /\ args.columns_list = <<>>
           /\ CreateValidationClass(args))
              => /\ last'.exc # "None"
                 /\ results' = results]_vars

(***************************************************************************)
(* Properties of the execute step (SpecRule)                               *)
(***************************************************************************)
\* what the violation query of the executed rule returns; nothing when it raises
Violating == IF rule.column \in {"A", "B"} THEN Call(rule, frame) ELSE {}

\* C6 as stated: the Result is Fail iff failed_number / frame_row_number is
\* strictly greater than the threshold, Success otherwise, and threshold_pass
\* is (failed_percentage <= threshold).
C6_Original ==
    res # <<>> =>
        LET r == res[1]["result"]
        IN /\ r.status = "Fail" <=>
                 /\ "failed_number" \in DOMAIN r
                 /\ r.failed_number * 100 > rule.threshold * r.frame_row_number
           /\ r.status \in {"Fail", "Success"}
           /\ "threshold_pass" \in DOMAIN r =>
                 (r.threshold_pass <=>
                     r.failed_percentage.num * 100
                         <= rule.threshold * r.failed_percentage.den)

\* C6 amended: when the rule's violation query executes, the Result is Fail
\* iff failed_number / frame_row_number is strictly greater than the
\* threshold and Success otherwise, with threshold_pass equal to
\* (failed_percentage <= threshold); when the query raises (the column is
\* not in the dataset) the Result is Fail whatever the threshold.
C6_StatusByFraction ==
    res # <<>> =>
        LET r == res[1]["result"]
        IN IF rule.column \in {"A", "B"}
           THEN /\ r.status = "Fail" <=>
                      r.failed_number * 100 > rule.threshold * r.frame_row_number
                /\ r.status \in {"Fail", "Success"}
                /\ r.threshold_pass <=>
                      r.failed_percentage.num * 100
                          <= rule.threshold * r.failed_percentage.den
           ELSE r.status = "Fail"

\* the failing fraction equals a threshold strictly between 0 and 1
C6_Witness ==
    /\ res # <<>>
    /\ rule.column = "A"
    /\ rule.threshold = 50
    /\ res[1]["result"].failed_number = 1
    /\ res[1]["result"].frame_row_number = 2
    /\ res[1]["result"].status = "Success"

\* C7: if a rule executed with threshold t gives Success, the same rule on
\* the same dataset with any threshold t2 >= t gives Success.
C7_ThresholdMonotonic ==
    \A i, j \in DOMAIN history :
        (/\ history[i].rule.threshold <= history[j].rule.threshold
         /\ history[i].result["result"].status = "Success")
            => history[j].result["result"].status = "Success"

\* a rule that failed passes once the threshold is raised
C7_Witness ==
    /\ Len(history) = 2
    /\ history[1].rule.threshold < history[2].rule.threshold
    /\ history[1].result["result"].status = "Fail"
    /\ history[2].result["result"].status = "Success"

\* C8 as stated: with threshold 0 the Result is Fail iff the violation query
\* returns at least one violating group, and Success iff it returns none.
C8_Original ==
    (res # <<>> /\ rule.threshold = 0) =>
        /\ res[1]["result"].status = "Fail" <=> Violating # {}
        /\ res[1]["result"].status = "Success" <=> Violating = {}

\* C8 amended: with threshold 0, when the violation query executes the
\* Result is Fail iff the query returns at least one violating group and
\* Success iff it returns none; when the query raises the Result is Fail.
C8_ZeroThreshold ==
    (res # <<>> /\ rule.threshold = 0) =>
        IF rule.column \in {"A", "B"}
        THEN /\ res[1]["result"].status = "Fail" <=> Violating # {}
             /\ res[1]["result"].status = "Success" <=> Violating = {}
        ELSE res[1]["result"].status = "Fail"

\* threshold 0 and a single violating row among two
C8_Witness ==
    /\ res # <<>>
    /\ rule.threshold = 0
    /\ rule.class = "ColumnNotBeNull"
    /\ Cardinality(Violating) = 1
    /\ res[1]["result"].failed_number = 1
    /\ res[1]["result"].status = "Fail"

\* C22 as stated: executing a rule on a dataset with zero rows never raises,
\* failed_percentage is 0 and, for every threshold, the status is Success.
C22_Original ==
    (res # <<>> /\ frame = <<>>) =>
        LET r == res[1]["result"]
        IN /\ r.status = "Success"
           /\ "failed_percentage" \in DOMAIN r
           /\ r.failed_percentage.num = 0

\* C22 amended: executing a rule on a dataset with zero rows never raises;
\* when the rule's violation query executes (its columns are in the dataset)
\* failed_number is 0, failed_percentage is 0 and the status is Success for
\* every threshold; when the query raises the Result is Fail.
C22_EmptyDataset ==
    (res # <<>> /\ frame = <<>>) =>
        LET r == res[1]["result"]
        IN IF rule.column \in {"A", "B"}
           THEN /\ r.status = "Success"
                /\ r.failed_number = 0
                /\ r.frame_row_number = 0
                /\ r.failed_percentage.num = 0
                /\ r.threshold_pass
           ELSE r.status = "Fail"

\* a rule was executed on the empty dataset with threshold 0
C22_Witness ==
    /\ res # <<>>
    /\ frame = <<>>
    /\ rule.column = "A"
    /\ rule.threshold = 0
    /\ res[1]["result"].status = "Success"
    /\ res[1]["result"].frame_row_number = 0

(***************************************************************************)
(* Properties of ColumnValuesToBeBetween (SpecBetween)                     *)
(***************************************************************************)
\* the dataset A = [1, 2, 3, 4, 5]
ScenarioFrame == [i \in 1..5 |-> [A |-> i, B |-> i]]

\* C20: on A = [1,2,3,4,5], ColumnValuesToBeBetween(A, 1, 2) gives
\* failed_number 3, frame_row_number 5 and failed_percentage 0.6; the status
\* is Fail with threshold 0 and with threshold 0.5, and Success with
\* threshold_pass true with threshold exactly 0.6.
C20_BetweenScenario ==
    (/\ res # <<>>
     /\ frame = ScenarioFrame
     /\ rule.class = "ColumnValuesToBeBetween"
     /\ rule.min_value = 1
     /\ rule.max_value = 2)
        => LET r == res[1]["result"]
           IN /\ r.failed_number = 3
              /\ r.frame_row_number = 5
              /\ r.failed_percentage.num * 10 = r.failed_percentage.den * 6
              /\ rule.threshold = 0 => (r.status = "Fail" /\ ~r.threshold_pass)
              /\ rule.threshold = 50 => r.status = "Fail"
              /\ rule.threshold = 60 => (r.status = "Success" /\ r.threshold_pass)

\* the rule was executed on the dataset with threshold exactly 0.6
C20_Witness ==
    /\ res # <<>>
    /\ frame = ScenarioFrame
    /\ rule.class = "ColumnValuesToBeBetween"
    /\ rule.min_value = 1
    /\ rule.max_value = 2
    /\ rule.threshold = 60
    /\ res[1]["result"].failed_number = 3
    /\ res[1]["result"].status = "Success"

\* what a rule of the between family measures for a value of its column:
\* the value itself, or the number of rows that hold it
Occurring(v) == Cardinality({i \in 1..Len(frame) : frame[i][rule.column] = v})
Measured(v) == IF rule.class = "ColumnValuesToBeBetween" THEN v ELSE Occurring(v)
OutsideBounds(x) ==
    CASE rule.min_value # None /\ rule.max_value = None -> x < rule.min_value
      [] rule.min_value = None /\ rule.max_value # None -> x > rule.max_value
      [] OTHER -> x \notin rule.min_value..rule.max_value

NumberOfUniqueValues == Cardinality(ColumnValues(frame, rule.column))

\* C25 as stated: ColumnUniqueValueCountToBeBetween with threshold 0 gives
\* Success iff the number of distinct values in the column lies between
\* min_value and max_value (inclusive, a missing bound unconstrained).
C25_UniqueValueCount ==
    (/\ res # <<>>
     /\ rule.class = "ColumnUniqueValueCountToBeBetween"
     /\ rule.threshold = 0)
        => (res[1]["result"].status = "Success"
                <=> /\ rule.min_value # None => NumberOfUniqueValues >= rule.min_value
                    /\ rule.max_value # None => NumberOfUniqueValues <= rule.max_value)

(***************************************************************************)
(* Properties of ColumnUniqueValuesToBeInList (SpecCities)                 *)
(***************************************************************************)
\* cities = 4 x Berlin + 5 x Rome + 1 x Paris, allowed [Berlin, Rome]
CityScenario ==
    /\ frame = CityFrame(4, 5, 1)
    /\ rule.values = {"Berlin", "Rome"}
NotAllowedRows == {i \in 1..Len(frame) : frame[i]["cities"] \notin rule.values}
NotAllowedValues == {frame[i]["cities"] : i \in NotAllowedRows}
ScenarioOutcome(r) ==
    CityScenario =>
        /\ r.failing_items = {"Paris"}
        /\ r.failed_number = 1
        /\ r.frame_row_number = 10
        /\ rule.threshold = 1 => r.status = "Fail"
        /\ rule.threshold = 50 => r.status = "Success"

RuleFiles ==
    UNION {{<<subdir.name, n>> :
               n \in {m \in 1..Len(subdir.files) : subdir.files[m] = "rule"}} :
           subdir \in {loader.catalogue[c] : c \in 1..Len(loader.catalogue)}}

\* C24 as stated: discovery is best-effort: a file that fails to load or has
\* no matching class never aborts the construction of the session, and the
\* rules of all the other files of every category are bound.
C24_DiscoveryBestEffort ==
    /\ loader.exc = "None"
    /\ loader.done =>
          /\ loader.bound = RuleFiles
          /\ loader.attached = {Categories[c] : c \in 1..Len(Categories)}

====
